---- MODULE Spec2Model ----
(***************************************************************************)
(* A model of src/utils.py: the file finder, the type normaliser, the      *)
(* attachment composer, the raw-payload encoder, the address extractor,    *)
(* the confirmation prompt and the image resize helper.                    *)
(*                                                                         *)
(* A Python str is a sequence of one-character strings, bytes are a        *)
(* sequence of integers; the bytes of an image are its height and width.   *)
(* A Python value that may be a str or a collection is a record            *)
(* [t |-> "str" | "list" | "tuple", v |-> ...].                            *)
(* The outcome of a call is a record with status "ok" and a value, or      *)
(* status "error" and the exception's name and no value field at all.      *)
(* Every call also leaves the trace of the I/O it performed, in order.     *)
(***************************************************************************)
EXTENDS Integers, Sequences, FiniteSets, TLC

VARIABLES
    exists,     \* whether the folder argument names an existing path
    files,      \* the folder's children in os.listdir order: [name, content]
    call,       \* the last call made: [op |-> ..., arguments]
    ret,        \* its outcome
    io,         \* the I/O it performed, in order
    pc,         \* press_Yn_to_continue: where the process is
    inp,        \* press_Yn_to_continue: the local variable inp
    hist        \* press_Yn_to_continue: the lines read from standard input

vars == <<exists, files, call, ret, io, pc, inp, hist>>

(***************************************************************************)
(* Bounds of the model.                                                    *)
(***************************************************************************)
MaxFiles == 2

MaxLines == 3

MaxDim == 6

MaxText == 3

(***************************************************************************)
(* Strings.                                                                *)
(***************************************************************************)
\* "x" in s
Contains(s, c) == \E i \in 1..Len(s) : s[i] = c

\* the index of the last c in s, 0 when there is none
LastIndexOf(s, c) ==
    IF Contains(s, c)
    THEN CHOOSE i \in 1..Len(s) : s[i] = c /\ \A j \in (i+1)..Len(s) : s[j] # c
    ELSE 0

\* s.split(c)[-1]: what follows the last c, the whole of s when it has no c
LastSegment(s, c) == SubSeq(s, LastIndexOf(s, c) + 1, Len(s))

\* s.endswith(t)
EndsWith(s, t) ==
    /\ Len(t) <= Len(s)
    /\ SubSeq(s, Len(s) - Len(t) + 1, Len(s)) = t

\* the members of a sequence
Range(s) == {s[i] : i \in 1..Len(s)}

\* the subsequence of s whose members satisfy keep, in order
RECURSIVE SelectIdx(_, _, _)
SelectIdx(s, keep, i) ==
    IF i > Len(s) THEN <<>>
    ELSE (IF keep[i] THEN <<s[i]>> ELSE <<>>) \o SelectIdx(s, keep, i + 1)

(***************************************************************************)
(* str2list, lines 143-160.                                                *)
(***************************************************************************)
\* a tuple in place of the list
str2listTupleMut(string) ==
    IF string.t = "str"
    THEN [t |-> "tuple", v |-> <<string.v>>]
    ELSE string

str2list(string) ==
    IF string.t = "str"
    THEN [t |-> "list", v |-> <<string.v>>]
    ELSE string

\* isinstance(x, list)
IsList(x) == x.t = "list"

(***************************************************************************)
(* Outcomes and I/O events.  An event names the system call and the path   *)
(* it is made on (<<>> for the folder argument itself).                    *)
(***************************************************************************)
Ev(e, n) == [ev |-> e, name |-> n]

Ok(value, trace) == [status |-> "ok", value |-> value, io |-> trace]

Raise(exc, trace) == [status |-> "error", exc |-> exc, io |-> trace]

(***************************************************************************)
(* find_files_with_suffix, lines 108-140.  fl is the folder's children in  *)
(* listing order.                                                          *)
(***************************************************************************)
ListDir(fl) == [i \in 1..Len(fl) |-> fl[i].name]

\* the comparison made without case
SuffixMatchLowerMut(file_suffix, suffix) ==
    \E i \in 1..Len(suffix.v) :
        /\ Len(suffix.v[i]) = Len(file_suffix)
        /\ \A k \in 1..Len(file_suffix) :
              \/ suffix.v[i][k] = file_suffix[k]
              \/ <<suffix.v[i][k], file_suffix[k]>> \in
                    {<<"P", "p">>, <<"N", "n">>, <<"G", "g">>,
                     <<"p", "P">>, <<"n", "N">>, <<"g", "G">>}

\* line 138: file_suffix in suffix
SuffixMatch(file_suffix, suffix) ==
    \E i \in 1..Len(suffix.v) : suffix.v[i] = file_suffix

\* without the check of line 132 the listing itself fails
find_files_with_suffixNoAssertMut(ex, fl, suffix0) ==
    IF ~ex THEN Raise("FileNotFoundError", <<Ev("listdir", <<>>)>>)
    ELSE LET suffix == str2list(suffix0)
             listed == ListDir(fl)
             file_suffixes == [i \in 1..Len(listed) |-> LastSegment(listed[i], ".")]
             idx_suffix == [i \in 1..Len(listed) |-> SuffixMatch(file_suffixes[i], suffix)]
         IN  Ok(SelectIdx(listed, idx_suffix, 1),
                <<Ev("exists", <<>>), Ev("listdir", <<>>)>>)

find_files_with_suffix(ex, fl, suffix0) ==
    IF ~ex THEN Raise("AssertionError", <<Ev("exists", <<>>)>>)
    ELSE LET suffix == str2list(suffix0)
             listed == ListDir(fl)
             file_suffixes == [i \in 1..Len(listed) |-> LastSegment(listed[i], ".")]
             idx_suffix == [i \in 1..Len(listed) |-> SuffixMatch(file_suffixes[i], suffix)]
         IN  Ok(SelectIdx(listed, idx_suffix, 1),
                <<Ev("exists", <<>>), Ev("listdir", <<>>)>>)

(***************************************************************************)
(* str.lower and str.splitlines on the characters the model uses.          *)
(***************************************************************************)
UPPER ==
    <<"A", "B", "C", "D", "E", "F", "G", "H", "I", "J", "K", "L", "M",
      "N", "O", "P", "Q", "R", "S", "T", "U", "V", "W", "X", "Y", "Z">>

LOWER ==
    <<"a", "b", "c", "d", "e", "f", "g", "h", "i", "j", "k", "l", "m",
      "n", "o", "p", "q", "r", "s", "t", "u", "v", "w", "x", "y", "z">>

LowerChar(c) ==
    IF \E i \in 1..Len(UPPER) : UPPER[i] = c
    THEN LOWER[CHOOSE i \in 1..Len(UPPER) : UPPER[i] = c]
    ELSE c

Lower(s) == [i \in 1..Len(s) |-> LowerChar(s[i])]

RECURSIVE SplitLinesFrom(_, _, _)
SplitLinesFrom(s, i, cur) ==
    IF i > Len(s) THEN (IF cur = <<>> THEN <<>> ELSE <<cur>>)
    ELSE IF s[i] = "\n" THEN <<cur>> \o SplitLinesFrom(s, i + 1, <<>>)
    ELSE IF s[i] = "\r"
         THEN <<cur>> \o SplitLinesFrom(s, IF i < Len(s) /\ s[i + 1] = "\n"
                                           THEN i + 2 ELSE i + 1, <<>>)
    ELSE SplitLinesFrom(s, i + 1, Append(cur, s[i]))

\* s.splitlines()
SplitLines(s) == SplitLinesFrom(s, 1, <<>>)

\* sep.join(parts)
RECURSIVE Join(_, _)
Join(parts, sep) ==
    IF parts = <<>> THEN <<>>
    ELSE IF Len(parts) = 1 THEN parts[1]
    ELSE parts[1] \o sep \o Join(Tail(parts), sep)

(***************************************************************************)
(* is_file_image, lines 222-227.                                           *)
(***************************************************************************)
IMAGE_ENDINGS ==
    { <<".", "p", "n", "g">>, <<".", "j", "p", "g">>, <<".", "j", "p", "e", "g">>,
      <<".", "t", "i", "f", "f">>, <<".", "b", "m", "p">>, <<".", "g", "i", "f">> }

\* os.path.join(folder, file) for a folder path that does not end in a separator
PathJoin(folder, file) == folder \o <<"/">> \o file

\* the ending compared with its case
is_file_imageNoLowerMut(path) == \E e \in IMAGE_ENDINGS : EndsWith(path, e)

is_file_image(path) == \E e \in IMAGE_ENDINGS : EndsWith(Lower(path), e)
(***************************************************************************)
(* image2bytes, lines 230-262.  A file's content is [img, data]: data are  *)
(* its bytes, img says whether cv2.imread can decode them; the bytes of a  *)
(* decodable image of height h and width w are <<h, w>>, which is also     *)
(* what cv2.imencode produces.                                             *)
(***************************************************************************)
Max2(a, b) == IF a >= b THEN a ELSE b

\* cv2.resize's saturate_cast<int>(n / d): the nearest integer; on an exact
\* half the double product may fall on either side, tie (0 or 1) says which
Round(n, d, tie) ==
    LET q == n \div d
        r == n % d
    IN  IF 2 * r < d THEN q
        ELSE IF 2 * r > d THEN q + 1
        ELSE q + tie

\* lines 253-257: the shape after the optional resize, <<0, 0>> when
\* cv2.resize rejects an empty destination size
ResizedShape(h, w, max_size, tie) ==
    LET pixels_max == Max2(h, w)
    IN  IF pixels_max > max_size
        THEN LET nh == Round(h * max_size, pixels_max, tie)
                 nw == Round(w * max_size, pixels_max, tie)
             IN  IF nh = 0 \/ nw = 0 THEN <<0, 0>> ELSE <<nh, nw>>
        ELSE <<h, w>>

image2bytes(path, content, max_size, tie) ==
    IF ~is_file_image(path)
    THEN Raise("AssertionError", <<Ev("exists", path), Ev("exists", path)>>)
    ELSE LET trace == <<Ev("exists", path), Ev("exists", path), Ev("imread", path)>>
         IN  IF ~content.img THEN Raise("AttributeError", trace)
             ELSE LET shape == ResizedShape(content.data[1], content.data[2], max_size, tie)
                  IN  IF shape = <<0, 0>> THEN Raise("cv2.error", trace)
                      ELSE Ok(shape, trace)

(***************************************************************************)
(* create_message, lines 45-98.                                            *)
(***************************************************************************)
\* the text kept as it is
set_contentIdentityMut(message) == message

\* EmailMessage.set_content: every line of the text, each ended by "\n"
set_content(message) ==
    LET lines == SplitLines(message)
    IN  Join(lines, <<"\n">>) \o <<"\n">>

\* msg[name] = value is refused when the value holds a line break
HeaderOk(value) == ~Contains(value, "\n") /\ ~Contains(value, "\r")

ContentOf(fl, name) == fl[CHOOSE i \in 1..Len(fl) : fl[i].name = name].content

\* the whole name taken for the subtype
SubtypeWholeNameMut(file) == file

\* line 88
Subtype(file) == LastSegment(file, ".")

\* lines 87-96, from the i-th file on; att are the attachments so far
RECURSIVE AttachLoop(_, _, _, _, _, _, _, _)
AttachLoop(folder, fl, found, i, max_size, tie, att, trace) ==
    IF i > Len(found) THEN Ok(att, trace)
    ELSE LET file == found[i]
             subtype == Subtype(file)
             path == PathJoin(folder, file)
             content == ContentOf(fl, file)
             t1 == Append(trace, Ev("exists", path))
         IN  IF is_file_image(path)
             THEN LET r == image2bytes(path, content, max_size, tie)
                  IN  IF r.status = "error" THEN Raise(r.exc, t1 \o r.io)
                      ELSE AttachLoop(folder, fl, found, i + 1, max_size, tie,
                               Append(att, [data |-> r.value, maintype |-> "image",
                                            subtype |-> subtype]),
                               t1 \o r.io)
             ELSE AttachLoop(folder, fl, found, i + 1, max_size, tie,
                      Append(att, [data |-> content.data, maintype |-> "image",
                                   subtype |-> subtype]),
                      Append(t1, Ev("read", path)))

\* text is <<message, email_from, email_to, subject>>, each [t, v]
create_message(text, folder, ex, fl, attachment_suffix0, max_image_size, tie) ==
    IF \E k \in 1..4 : text[k].t # "str" THEN Raise("AssertionError", <<>>)
    ELSE IF ~ex THEN Raise("AssertionError", <<Ev("exists", <<>>)>>)
    ELSE LET attachment_suffix == str2list(attachment_suffix0)
             t0 == <<Ev("exists", <<>>)>>
         IN  IF ~IsList(attachment_suffix) THEN Raise("AssertionError", t0)
             ELSE IF \E k \in 2..4 : ~HeaderOk(text[k].v) THEN Raise("ValueError", t0)
             ELSE LET found == find_files_with_suffix(ex, fl, attachment_suffix)
                      r == AttachLoop(folder, fl, found.value, 1, max_image_size, tie,
                                      <<>>, t0 \o found.io)
                  IN  IF r.status = "error" THEN r
                      ELSE Ok([body |-> set_content(text[1].v),
                               To |-> text[3].v,
                               From |-> text[2].v,
                               Subject |-> text[4].v,
                               attachments |-> r.value], r.io)
(***************************************************************************)
(* message2bytes, lines 101-105.                                           *)
(***************************************************************************)
\* the code point of each character the model uses
ORD ==
    ("A" :> 65) @@ ("B" :> 66) @@ ("C" :> 67) @@ ("D" :> 68) @@ ("E" :> 69) @@
    ("F" :> 70) @@ ("G" :> 71) @@ ("H" :> 72) @@ ("I" :> 73) @@ ("J" :> 74) @@
    ("K" :> 75) @@ ("L" :> 76) @@ ("M" :> 77) @@ ("N" :> 78) @@ ("O" :> 79) @@
    ("P" :> 80) @@ ("Q" :> 81) @@ ("R" :> 82) @@ ("S" :> 83) @@ ("T" :> 84) @@
    ("U" :> 85) @@ ("V" :> 86) @@ ("W" :> 87) @@ ("X" :> 88) @@ ("Y" :> 89) @@
    ("Z" :> 90) @@ ("a" :> 97) @@ ("b" :> 98) @@ ("c" :> 99) @@ ("d" :> 100) @@
    ("e" :> 101) @@ ("f" :> 102) @@ ("g" :> 103) @@ ("h" :> 104) @@ ("i" :> 105) @@
    ("j" :> 106) @@ ("k" :> 107) @@ ("l" :> 108) @@ ("m" :> 109) @@ ("n" :> 110) @@
    ("o" :> 111) @@ ("p" :> 112) @@ ("q" :> 113) @@ ("r" :> 114) @@ ("s" :> 115) @@
    ("t" :> 116) @@ ("u" :> 117) @@ ("v" :> 118) @@ ("w" :> 119) @@ ("x" :> 120) @@
    ("y" :> 121) @@ ("z" :> 122) @@ ("0" :> 48) @@ ("1" :> 49) @@ ("2" :> 50) @@
    ("3" :> 51) @@ ("4" :> 52) @@ ("5" :> 53) @@ ("6" :> 54) @@ ("7" :> 55) @@
    ("8" :> 56) @@ ("9" :> 57) @@ (" " :> 32) @@ ("." :> 46) @@ ("/" :> 47) @@
    (":" :> 58) @@ ("-" :> 45) @@ ("@" :> 64) @@ ("<" :> 60) @@ (">" :> 62) @@
    (";" :> 59) @@ ("=" :> 61) @@ ("+" :> 43) @@ ("_" :> 95) @@ ("\n" :> 10) @@
    ("\r" :> 13) @@ ("?" :> 63) @@ ("\t" :> 9)

\* str.encode()
Encode(str) == [i \in 1..Len(str) |-> ORD[str[i]]]

\* bytes.decode(), defined when Decodable
CHR == [n \in {ORD[c] : c \in DOMAIN ORD} |-> CHOOSE c \in DOMAIN ORD : ORD[c] = n]

Decodable(b) == \A i \in 1..Len(b) : b[i] \in DOMAIN CHR

Decode(b) == [i \in 1..Len(b) |-> CHR[b[i]]]

\* the alphabet of base64.b64encode
B64_ALPHABET ==
    <<
       "A", "B", "C", "D", "E", "F", "G", "H", "I", "J", "K", "L", "M", "N", "O", "P",
       "Q", "R", "S", "T", "U", "V", "W", "X", "Y", "Z", "a", "b", "c", "d", "e", "f",
       "g", "h", "i", "j", "k", "l", "m", "n", "o", "p", "q", "r", "s", "t", "u", "v",
       "w", "x", "y", "z", "0", "1", "2", "3", "4", "5", "6", "7", "8", "9", "+", "/" >>

Sextet(n) == B64_ALPHABET[n + 1]

\* base64.b64encode: three bytes to four characters, "=" padding at the end
RECURSIVE b64encode(_)
b64encode(b) ==
    IF Len(b) = 0 THEN <<>>
    ELSE IF Len(b) = 1
    THEN <<Sextet(b[1] \div 4), Sextet((b[1] % 4) * 16), "=", "=">>
    ELSE IF Len(b) = 2
    THEN <<Sextet(b[1] \div 4), Sextet((b[1] % 4) * 16 + b[2] \div 16),
           Sextet((b[2] % 16) * 4), "=">>
    ELSE <<Sextet(b[1] \div 4), Sextet((b[1] % 4) * 16 + b[2] \div 16),
           Sextet((b[2] % 16) * 4 + b[3] \div 64), Sextet(b[3] % 64)>>
         \o b64encode(SubSeq(b, 4, Len(b)))

\* the translation of base64.urlsafe_b64encode
UrlSafeChar(c) == IF c = "+" THEN "-" ELSE IF c = "/" THEN "_" ELSE c

\* the standard alphabet left as it is
urlsafe_b64encodeStdMut(b) == b64encode(b)

urlsafe_b64encode(b) ==
    LET e == b64encode(b) IN [i \in 1..Len(e) |-> UrlSafeChar(e[i])]

\* EmailMessage.as_bytes, reduced to a framing that keeps what the message
\* holds: the three headers in the order they were set, an empty line, the
\* body, and per attachment a boundary line, its content type and its
\* base64 transfer encoding
HeaderLine(name, value) == Encode(name \o <<":", " ">> \o value \o <<"\n">>)

RECURSIVE PartsBytes(_)
PartsBytes(att) ==
    IF att = <<>> THEN <<>>
    ELSE Encode(<<"-", "-", "\n">>)
         \o Encode(<<"i", "m", "a", "g", "e", "/">> \o att[1].subtype \o <<"\n">>)
         \o Encode(b64encode(att[1].data) \o <<"\n">>)
         \o PartsBytes(Tail(att))

as_bytes(msg) ==
    HeaderLine(<<"T", "o">>, msg.To)
    \o HeaderLine(<<"F", "r", "o", "m">>, msg.From)
    \o HeaderLine(<<"S", "u", "b", "j", "e", "c", "t">>, msg.Subject)
    \o Encode(<<"\n">>)
    \o Encode(msg.body)
    \o PartsBytes(msg.attachments)

message2bytes(msg) ==
    LET encoded_msg == urlsafe_b64encode(as_bytes(msg))
        di_msg == [raw |-> encoded_msg]
    IN  di_msg
(***************************************************************************)
(* process_email_list, lines 163-205.  Here a file's data are the          *)
(* characters of its text.                                                 *)
(***************************************************************************)
\* what str.split() and the regular expression's \s take for whitespace
IsSpace(c) == c \in {" ", "\n", "\r", "\t"}

\* s.split(): the maximal runs of non-whitespace characters
RECURSIVE SplitWsFrom(_, _, _)
SplitWsFrom(s, i, cur) ==
    IF i > Len(s) THEN (IF cur = <<>> THEN <<>> ELSE <<cur>>)
    ELSE IF IsSpace(s[i])
         THEN (IF cur = <<>> THEN <<>> ELSE <<cur>>) \o SplitWsFrom(s, i + 1, <<>>)
         ELSE SplitWsFrom(s, i + 1, Append(cur, s[i]))

SplitWs(s) == SplitWsFrom(s, 1, <<>>)

\* the semicolon forgotten
IsDelimiterNoSemicolonMut(c) == IsSpace(c)

\* line 197: the pattern \s|\;|\n matches one character
IsDelimiter(c) == IsSpace(c) \/ c = ";" \/ c = "\n"

\* Series.str.split(pattern): a piece between any two matches, empty ones kept
RECURSIVE RegexSplitFrom(_, _, _)
RegexSplitFrom(s, i, cur) ==
    IF i > Len(s) THEN <<cur>>
    ELSE IF IsDelimiter(s[i]) THEN <<cur>> \o RegexSplitFrom(s, i + 1, <<>>)
    ELSE RegexSplitFrom(s, i + 1, Append(cur, s[i]))

RegexSplit(s) == RegexSplitFrom(s, 1, <<>>)

\* line 201: str.replace('\<|\>', '')
StripAngles(s) ==
    SelectIdx(s, [i \in 1..Len(s) |-> s[i] \notin {"<", ">"}], 1)

\* lines 185-187: the lines of the files found, in order, and the reads
\* made; a file whose bytes are no text ends the loop with an error
RECURSIVE ReadLines(_, _, _, _, _, _)
ReadLines(folder, fl, found, i, lines, trace) ==
    IF i > Len(found) THEN Ok(lines, trace)
    ELSE LET data == ContentOf(fl, found[i]).data
             t1 == Append(trace, Ev("read", PathJoin(folder, found[i])))
         IN  IF ~Decodable(data) THEN Raise("UnicodeDecodeError", t1)
             ELSE ReadLines(folder, fl, found, i + 1,
                            lines \o SplitLines(Decode(data)), t1)

\* lines 189-203, on the lines read
ExtractEmails(lines) ==
    LET joined == Join(lines, <<" ">>)
        lowered == Lower(joined)
        normal == Join(SplitWs(lowered), <<" ">>)
        pieces == RegexSplit(normal)
        valid == SelectIdx(pieces,
                     [i \in 1..Len(pieces) |-> Contains(pieces[i], "@")], 1)
    IN  [i \in 1..Len(valid) |-> StripAngles(valid[i])]

process_email_list(folder, ex, fl, file_suffix) ==
    IF ~ex THEN Raise("AssertionError", <<Ev("exists", <<>>)>>)
    ELSE LET found == find_files_with_suffix(ex, fl, file_suffix)
             rd == ReadLines(folder, fl, found.value, 1, <<>>,
                             <<Ev("exists", <<>>)>> \o found.io)
         IN  IF rd.status = "error" THEN rd
             ELSE Ok(ExtractEmails(rd.value), rd.io)

(***************************************************************************)
(* get_gmail_service, lines 18-42: the checks made before the credential   *)
(* flow is handed the scopes.  The service itself is opaque.               *)
(***************************************************************************)
get_gmail_service(scopes0, credentials_exist) ==
    LET scopes == str2list(scopes0)
    IN  IF ~IsList(scopes) THEN Raise("AssertionError", <<>>)
        ELSE IF ~credentials_exist
        THEN Raise("AssertionError", <<Ev("exists", <<"c", "r", "e", "d">>)>>)
        ELSE Ok([service |-> "gmail", scopes |-> scopes],
                <<Ev("exists", <<"c", "r", "e", "d">>)>>)

(***************************************************************************)
(* press_Yn_to_continue, lines 208-219.                                    *)
(***************************************************************************)
\* a blank line taken to end the loop
LoopCondBlankMut(line) == line # "Y" /\ line # "n" /\ line # ""

\* line 214
LoopCond(line) == line # "Y" /\ line # "n"

\* line 218
ExitCond(line) == line = "n"

\* sys.exit with a string argument ends the process with this status
EXIT_STATUS == 1
(***************************************************************************)
(* The worlds and the arguments the calls are made with.                   *)
(***************************************************************************)
\* file contents: text, an image of 2 x 4 pixels, an image of 1 x 2 pixels
TEXT_FILE == [img |-> FALSE, data |-> Encode(<<"A", "@", "b", ";", "c">>)]

IMAGE_2x4 == [img |-> TRUE, data |-> <<2, 4>>]

IMAGE_1x2 == [img |-> TRUE, data |-> <<1, 2>>]

\* the files a folder may hold: lower- and upper-case extensions, a name
\* with no dot, a name with several dots, an image name on text
FILES ==
    { [name |-> <<"a", ".", "p", "n", "g">>, content |-> IMAGE_2x4],
      [name |-> <<"a", ".", "p", "n", "g">>, content |-> TEXT_FILE],
      [name |-> <<"b", ".", "P", "N", "G">>, content |-> IMAGE_1x2],
      [name |-> <<"p", "n", "g">>, content |-> IMAGE_2x4],
      [name |-> <<"c", ".", "t", "x", "t">>, content |-> TEXT_FILE],
      [name |-> <<"d", ".", "p", "n", "g", ".", "t", "x", "t">>, content |-> TEXT_FILE] }

\* the listings of at most n children
RECURSIVE Listings(_)
Listings(n) ==
    IF n = 0 THEN {<<>>}
    ELSE LET shorter == Listings(n - 1)
         IN  shorter \cup
             { Append(l, f) : l \in {x \in shorter : Len(x) = n - 1},
                              f \in FILES }

DistinctNames(l) == \A i, j \in 1..Len(l) : i # j => l[i].name # l[j].name

WORLDS == { l \in Listings(MaxFiles) : DistinctNames(l) }

Str(v) == [t |-> "str", v |-> v]

SUFFIXES ==
    { Str(<<"p", "n", "g">>),
      Str(<<"z", "i", "p">>),
      [t |-> "list", v |-> <<<<"p", "n", "g">>, <<"t", "x", "t">>>>],
      [t |-> "list", v |-> <<<<"P", "N", "G">>, <<"p", "n", "g">>>>],
      [t |-> "tuple", v |-> <<<<"t", "x", "t">>, <<"p", "n", "g">>>>] }

\* <<message, email_from, email_to, subject>>
TEXTS ==
    { <<Str(<<"h", "i">>), Str(<<"a", "@", "b">>), Str(<<"c", "@", "d">>), Str(<<"<", "s", ">">>)>>,
      <<Str(<<"a", "\r", "\n", "b", "\n">>), Str(<<"a", "@", "b">>), Str(<<"c", "@", "d">>), Str(<<"R", "e", ":", " ", "s", "?">>)>>,
      <<Str(<<>>), Str(<<"a", "@", "b">>), Str(<<"c", "@", "d">>), Str(<<"s", "\n", "t">>)>>,
      <<[t |-> "int", v |-> <<>>], Str(<<"a", "@", "b">>), Str(<<"c", "@", "d">>), Str(<<"s">>)>> }

FOLDERS == { <<"d">>, <<"d", ".", "p", "n", "g">> }

MAX_SIZES == {1, 3}

TIES == {0, 1}

NoCall == [op |-> "none"]

NoRet == [status |-> "none"]

Outcome(r) == [f \in DOMAIN r \ {"io"} |-> r[f]]

(***************************************************************************)
(* Spec: calls of the file finder, the normaliser, the composer, the       *)
(* encoder and the extractor on a folder that exists or not.               *)
(***************************************************************************)
Init ==
    /\ exists \in BOOLEAN
    /\ files \in (IF exists THEN WORLDS ELSE {<<>>})
    /\ call = NoCall
    /\ ret = NoRet
    /\ io = <<>>
    /\ pc = "idle"
    /\ inp = ""
    /\ hist = <<>>

\* a run makes one call (no call leaves anything behind for the next one,
\* so a second call would start from the same world), then may encode the
\* message it built
CallStr2list ==
    \E x \in SUFFIXES :
        /\ call = NoCall
        /\ call' = [op |-> "str2list", string |-> x]
        /\ ret' = [status |-> "ok", value |-> str2list(x)]
        /\ io' = <<>>
        /\ UNCHANGED <<exists, files, pc, inp, hist>>

CallGetGmailService ==
    \E x \in SUFFIXES, c \in BOOLEAN :
        LET r == get_gmail_service(x, c)
        IN  /\ call = NoCall
            /\ call' = [op |-> "get_gmail_service", scopes |-> x, credentials |-> c]
            /\ ret' = Outcome(r)
            /\ io' = r.io
            /\ UNCHANGED <<exists, files, pc, inp, hist>>

CallFindFiles ==
    \E x \in SUFFIXES :
        LET r == find_files_with_suffix(exists, files, x)
        IN  /\ call = NoCall
            /\ call' = [op |-> "find_files_with_suffix", suffix |-> x]
            /\ ret' = Outcome(r)
            /\ io' = r.io
            /\ UNCHANGED <<exists, files, pc, inp, hist>>

CallCreateMessage ==
    \E text \in TEXTS, folder \in FOLDERS, x \in SUFFIXES,
       m \in MAX_SIZES, tie \in TIES :
        LET r == create_message(text, folder, exists, files, x, m, tie)
        IN  /\ call = NoCall
            /\ call' = [op |-> "create_message", text |-> text, folder |-> folder,
                        suffix |-> x, max_image_size |-> m]
            /\ ret' = Outcome(r)
            /\ io' = r.io
            /\ UNCHANGED <<exists, files, pc, inp, hist>>

CallMessage2bytes ==
    /\ call.op = "create_message"
    /\ ret.status = "ok"
    /\ call' = [op |-> "message2bytes", msg |-> ret.value]
    /\ ret' = [status |-> "ok", value |-> message2bytes(ret.value)]
    /\ io' = <<>>
    /\ UNCHANGED <<exists, files, pc, inp, hist>>

CallProcessEmailList ==
    \E folder \in FOLDERS, x \in SUFFIXES :
        LET r == process_email_list(folder, exists, files, x)
        IN  /\ call = NoCall
            /\ call' = [op |-> "process_email_list", folder |-> folder, suffix |-> x]
            /\ ret' = Outcome(r)
            /\ io' = r.io
            /\ UNCHANGED <<exists, files, pc, inp, hist>>

Next ==
    \/ CallStr2list
    \/ CallGetGmailService
    \/ CallFindFiles
    \/ CallCreateMessage
    \/ CallMessage2bytes
    \/ CallProcessEmailList

Spec == Init /\ [][Next]_vars
(***************************************************************************)
(* SpecPrompt: press_Yn_to_continue reading lines from standard input.     *)
(* One step is one input() call with the code that follows it up to the    *)
(* next input() call, the return or the exit.                              *)
(***************************************************************************)
LINES == {"Y", "n", "y", "N", "", "Y ", "no"}

InitPrompt ==
    /\ exists = TRUE
    /\ files = <<>>
    /\ call = NoCall
    /\ ret = NoRet
    /\ io = <<>>
    /\ pc = "idle"
    /\ inp = ""
    /\ hist = <<>>

CallPressYn ==
    /\ pc = "idle"
    /\ pc' = "input_212"
    /\ call' = [op |-> "press_Yn_to_continue"]
    /\ UNCHANGED <<exists, files, ret, io, inp, hist>>

ReadLine ==
    \E line \in LINES :
        /\ pc \in {"input_212", "input_216"}
        /\ Len(hist) < MaxLines
        /\ inp' = line
        /\ hist' = Append(hist, line)
        /\ IF LoopCond(line)
           THEN pc' = "input_216" /\ ret' = ret
           ELSE IF ExitCond(line)
           THEN pc' = "exited" /\ ret' = [status |-> "exit", code |-> EXIT_STATUS]
           ELSE pc' = "returned" /\ ret' = [status |-> "ok"]
        /\ UNCHANGED <<exists, files, call, io>>

\* standard input is closed: input() raises EOFError
ReadEndOfInput ==
    /\ pc \in {"input_212", "input_216"}
    /\ pc' = "raised"
    /\ ret' = [status |-> "error", exc |-> "EOFError"]
    /\ UNCHANGED <<exists, files, call, io, inp, hist>>

NextPrompt == CallPressYn \/ ReadLine \/ ReadEndOfInput

SpecPrompt == InitPrompt /\ [][NextPrompt]_vars

(***************************************************************************)
(* SpecImage: image2bytes on one file of any shape within the bounds, and  *)
(* of the shape of the documented example.                                 *)
(***************************************************************************)
DIMS == (1..MaxDim) \cup {1024, 2048}

IMAGE_NAMES == { <<"a", ".", "p", "n", "g">>, <<"b", ".", "J", "P", "G">>, <<"c", ".", "t", "x", "t">> }

InitImage ==
    /\ exists = TRUE
    /\ \E n \in IMAGE_NAMES, h \in DIMS, w \in DIMS, ok \in BOOLEAN :
          /\ ok \/ (h = 1 /\ w = 1)
          /\ files = <<[name |-> n, content |-> [img |-> ok, data |-> <<h, w>>]]>>
    /\ call = NoCall
    /\ ret = NoRet
    /\ io = <<>>
    /\ pc = "idle"
    /\ inp = ""
    /\ hist = <<>>

CallImage2bytes ==
    \E m \in (1..MaxDim) \cup {1024}, tie \in TIES :
        LET r == image2bytes(PathJoin(<<"d">>, files[1].name), files[1].content, m, tie)
        IN  /\ call = NoCall
            /\ call' = [op |-> "image2bytes", max_size |-> m]
            /\ ret' = Outcome(r)
            /\ io' = r.io
            /\ UNCHANGED <<exists, files, pc, inp, hist>>

NextImage == CallImage2bytes

SpecImage == InitImage /\ [][NextImage]_vars

(***************************************************************************)
(* SpecEmail: process_email_list on a folder of text files: one of any     *)
(* text within the bounds, alone or beside a fixed one.                    *)
(***************************************************************************)
TEXT_ALPHABET == {"A", "@", "<", ">", ";", " ", "\n"}

RECURSIVE TextsOfLen(_)
TextsOfLen(n) ==
    IF n = 0 THEN {<<>>}
    ELSE {Append(t, c) : t \in TextsOfLen(n - 1), c \in TEXT_ALPHABET}

ANY_TEXT == UNION {TextsOfLen(n) : n \in 0..MaxText}

EXAMPLE_TEXT ==
    <<"A", "l", "i", "c", "e", " ", "<", "a", "l", "i", "c", "e", "@", "e", "x", "a", "m", "p", "l", "e", ".", "c", "o", "m", ">", ";", "\n">>
    \o <<"n", "o", "t", "a", "n", "e", "m", "a", "i", "l", " ", "b", "o", "b", "@", "t", "e", "s", "t", ".", "o", "r", "g">>

TextFile(n, t) == [name |-> n, content |-> [img |-> FALSE, data |-> Encode(t)]]

FIXED_FILES ==
    { TextFile(<<"b", ".", "t", "x", "t">>, EXAMPLE_TEXT),
      TextFile(<<"B", ".", "T", "X", "T">>, <<"x", "@", "y">>),
      TextFile(<<"t", "x", "t">>, <<"<", "C", "@", "d", ">", "\t", "E", ";", "f", "@", "g">>) }

InitEmail ==
    /\ exists = TRUE
    /\ \/ files \in {<<>>, <<TextFile(<<"a", ".", "t", "x", "t">>, EXAMPLE_TEXT)>>}
       \/ \E t \in ANY_TEXT :
             \/ files = <<TextFile(<<"a", ".", "t", "x", "t">>, t)>>
             \/ \E f \in FIXED_FILES :
                   files \in {<<TextFile(<<"a", ".", "t", "x", "t">>, t), f>>,
                              <<f, TextFile(<<"a", ".", "t", "x", "t">>, t)>>}
    /\ call = NoCall
    /\ ret = NoRet
    /\ io = <<>>
    /\ pc = "idle"
    /\ inp = ""
    /\ hist = <<>>

\* the default suffix 'txt', or a list
CallExtract ==
    \E x \in {Str(<<"t", "x", "t">>), [t |-> "list", v |-> <<<<"T", "X", "T">>, <<"t", "x", "t">>>>]} :
        LET r == process_email_list(<<"d">>, exists, files, x)
        IN  /\ call = NoCall
            /\ call' = [op |-> "process_email_list", folder |-> <<"d">>, suffix |-> x]
            /\ ret' = Outcome(r)
            /\ io' = r.io
            /\ UNCHANGED <<exists, files, pc, inp, hist>>

NextEmail == CallExtract

SpecEmail == InitEmail /\ [][NextEmail]_vars

(***************************************************************************)
(* What the claims speak of, stated apart from the operators above.        *)
(***************************************************************************)
\* e is the last dot-delimited segment of name n
HasExt(n, e) ==
    /\ ~Contains(e, ".")
    /\ \/ n = e
       \/ EndsWith(n, <<".">> \o e)

\* the suffixes a suffix argument stands for
SuffixSet(x) == IF x.t = "str" THEN {x.v} ELSE Range(x.v)

Matches(n, x) == \E e \in SuffixSet(x) : HasExt(n, e)

\* the places in the listing of the children that match x, and the k-th
MatchIdx(x) == {i \in 1..Len(files) : Matches(files[i].name, x)}

NthMatch(x, k) ==
    CHOOSE i \in MatchIdx(x) : Cardinality({j \in MatchIdx(x) : j <= i}) = k

\* the events of the folder check alone
OnlyFolderCheck == \A k \in 1..Len(io) : io[k] = Ev("exists", <<>>)

\* C1: on an existing folder find_files_with_suffix returns exactly the
\* children whose last dot-delimited segment is, case-sensitively, one of
\* the suffixes given as one string or a list, each child once; a name with
\* no dot is compared by its whole name.
C1_FindExact ==
    (call.op = "find_files_with_suffix" /\ exists) =>
        /\ ret.status = "ok"
        /\ Range(ret.value) = {files[i].name : i \in MatchIdx(call.suffix)}
        /\ Len(ret.value) = Cardinality(MatchIdx(call.suffix))

\* a listing with "png" (no dot) found, "b.PNG" left out for its case
C1_Witness ==
    /\ call.op = "find_files_with_suffix"
    /\ call.suffix = Str(<<"p", "n", "g">>)
    /\ ret.status = "ok"
    /\ ret.value = <<<<"p", "n", "g">>>>
    /\ \E i \in 1..Len(files) : files[i].name = <<"b", ".", "P", "N", "G">>

\* C7 as stated: str2list wraps a string into a one-element list and
\* returns a collection unchanged, never a bare string; and every caller
\* that normalises through it accepts a string and any collection of strings.
C7_Str2listTotal ==
    call.op = "str2list" =>
        /\ ret.status = "ok"
        /\ ret.value.t # "str"
        /\ call.string.t = "str" => ret.value = [t |-> "list", v |-> <<call.string.v>>]
        /\ call.string.t # "str" => ret.value = call.string

TextIsStr == \A k \in 1..4 : call.text[k].t = "str"

\* the call did not fail an assertion
Accepted == ret.status = "error" => ret.exc # "AssertionError"

C7_Original ==
    /\ C7_Str2listTotal
    /\ (call.op = "find_files_with_suffix" /\ exists) => Accepted
    /\ (call.op = "create_message" /\ exists /\ TextIsStr) => Accepted
    /\ (call.op = "get_gmail_service" /\ call.credentials) => Accepted

\* C7 amended: find_files_with_suffix accepts a string and any collection;
\* create_message and get_gmail_service accept a string or a list, and fail
\* their isinstance(list) assertion on any other collection.
C7_Amended ==
    /\ C7_Str2listTotal
    /\ (call.op = "find_files_with_suffix" /\ exists) => Accepted
    /\ (call.op = "create_message" /\ exists /\ TextIsStr) =>
           (Accepted <=> call.suffix.t \in {"str", "list"})
    /\ (call.op = "get_gmail_service" /\ call.credentials) =>
           (Accepted <=> call.scopes.t \in {"str", "list"})

\* create_message took a single string and went on to list the folder
C7_Witness ==
    /\ call.op = "create_message"
    /\ call.suffix.t = "str"
    /\ ret.status = "ok"
    /\ Len(ret.value.attachments) > 0

\* C8: on a folder that does not exist find_files_with_suffix,
\* create_message and process_email_list end in an error, with no value
\* returned, and nothing was listed, opened or read before it.
C8_MissingFolderFailsFast ==
    (~exists /\ call.op \in {"find_files_with_suffix", "create_message",
                              "process_email_list"}) =>
        /\ ret.status = "error"
        /\ "value" \notin DOMAIN ret
        /\ OnlyFolderCheck

\* process_email_list stopped at its folder check
C8_Witness ==
    /\ ~exists
    /\ call.op = "process_email_list"
    /\ ret.status = "error"
    /\ io = <<Ev("exists", <<>>)>>
\* the text with every line break turned into "\n", and "\n" added at the
\* end unless the text ends in a line break already
RECURSIVE CanonBreaks(_, _)
CanonBreaks(s, i) ==
    IF i > Len(s) THEN <<>>
    ELSE IF s[i] = "\r" /\ i < Len(s) /\ s[i + 1] = "\n"
         THEN <<"\n">> \o CanonBreaks(s, i + 2)
    ELSE IF s[i] = "\r" THEN <<"\n">> \o CanonBreaks(s, i + 1)
    ELSE <<s[i]>> \o CanonBreaks(s, i + 1)

Terminated(s) ==
    LET c == CanonBreaks(s, 1)
    IN  IF c # <<>> /\ c[Len(c)] = "\n" THEN c ELSE c \o <<"\n">>

HasBreak(s) == Contains(s, "\n") \/ Contains(s, "\r")

\* create_message was called with texts on an existing folder where no
\* child matches the suffix filter, a string or a list
C4_Case ==
    /\ call.op = "create_message"
    /\ exists
    /\ TextIsStr
    /\ call.suffix.t \in {"str", "list"}
    /\ MatchIdx(call.suffix) = {}

UrlSafeSextet(n) == IF n = 62 THEN "-" ELSE IF n = 63 THEN "_" ELSE B64_ALPHABET[n + 1]

URLSAFE_CHARS == {UrlSafeSextet(n) : n \in 0..63}

UrlSafeIndex(c) == CHOOSE n \in 0..63 : UrlSafeSextet(n) = c

RECURSIVE urlsafe_b64decode(_)
urlsafe_b64decode(s) ==
    IF s = <<>> THEN <<>>
    ELSE LET a == UrlSafeIndex(s[1])
             b == UrlSafeIndex(s[2])
             rest == urlsafe_b64decode(SubSeq(s, 5, Len(s)))
         IN  IF s[3] = "=" THEN <<a * 4 + b \div 16>>
             ELSE LET c == UrlSafeIndex(s[3])
                  IN  IF s[4] = "="
                      THEN <<a * 4 + b \div 16, (b % 16) * 16 + c \div 4>>
                      ELSE <<a * 4 + b \div 16, (b % 16) * 16 + c \div 4,
                             (c % 4) * 64 + UrlSafeIndex(s[4])>> \o rest

\* the serialized message read back: the pieces between line feeds
RECURSIVE SplitBytes(_, _, _)
SplitBytes(b, i, cur) ==
    IF i > Len(b) THEN <<cur>>
    ELSE IF b[i] = 10 THEN <<cur>> \o SplitBytes(b, i + 1, <<>>)
    ELSE SplitBytes(b, i + 1, Append(cur, b[i]))

BOUNDARY == Encode(<<"-", "-">>)

RECURSIVE BodyBytes(_, _)
BodyBytes(lines, i) ==
    IF i >= Len(lines) \/ lines[i] = BOUNDARY THEN <<>>
    ELSE lines[i] \o <<10>> \o BodyBytes(lines, i + 1)

Reparsed(b) ==
    LET lines == SplitBytes(b, 1, <<>>)
    IN  [To |-> SubSeq(lines[1], 5, Len(lines[1])),
         From |-> SubSeq(lines[2], 7, Len(lines[2])),
         Subject |-> SubSeq(lines[3], 10, Len(lines[3])),
         body |-> BodyBytes(lines, 5),
         n_attachments |-> Cardinality({i \in 1..Len(lines) : lines[i] = BOUNDARY})]

PaddingAtEndOnly(s) ==
    \A i \in 1..Len(s) : s[i] = "=" => (i > Len(s) - 2 /\ s[Len(s)] = "=")

\* C6: message2bytes returns a record with the one key raw; its value uses
\* the URL-safe alphabet only (no "+", no "/"), keeps its padding, decodes
\* to the serialized bytes of the message, and these read back give the
\* sender, recipient, subject, body and number of attachments of the
\* message that was built.
C6_RawRoundTrip ==
    call.op = "message2bytes" =>
        /\ DOMAIN ret.value = {"raw"}
        /\ \A i \in 1..Len(ret.value.raw) : ret.value.raw[i] \in URLSAFE_CHARS \cup {"="}
        /\ Len(ret.value.raw) % 4 = 0
        /\ PaddingAtEndOnly(ret.value.raw)
        /\ urlsafe_b64decode(ret.value.raw) = as_bytes(call.msg)
        /\ LET back == Reparsed(urlsafe_b64decode(ret.value.raw))
           IN  /\ back.To = Encode(call.msg.To)
               /\ back.From = Encode(call.msg.From)
               /\ back.Subject = Encode(call.msg.Subject)
               /\ back.body = Encode(call.msg.body)
               /\ back.n_attachments = Len(call.msg.attachments)

\* a message with an attachment whose raw text holds "-" or "_" and is padded
C6_Witness ==
    /\ call.op = "message2bytes"
    /\ Len(call.msg.attachments) > 0
    /\ \E i \in 1..Len(ret.value.raw) : ret.value.raw[i] \in {"-", "_"}
    /\ ret.value.raw[Len(ret.value.raw)] = "="
\* the extensions of the whitelist
IMAGE_EXTENSIONS ==
    { <<"p", "n", "g">>,
      <<"j", "p", "g">>,
      <<"j", "p", "e", "g">>,
      <<"t", "i", "f", "f">>,
      <<"b", "m", "p">>,
      <<"g", "i", "f">> }

\* the last dot-delimited segment of n, lower-cased, is in the whitelist
ExtInWhitelist(n) == \E e \in IMAGE_EXTENSIONS : HasExt(Lower(n), e)

\* what create_message did with child n of the folder it was given
DecodedAsImage(n) ==
    \E k \in 1..Len(io) : io[k] = Ev("imread", PathJoin(call.folder, n))

ReadRaw(n) ==
    \E k \in 1..Len(io) : io[k] = Ev("read", PathJoin(call.folder, n))

\* the children create_message was handed and got to before it ended
Handled ==
    {files[i].name : i \in MatchIdx(call.suffix)} \cap
        {n \in {files[i].name : i \in 1..Len(files)} : DecodedAsImage(n) \/ ReadRaw(n)}

\* C9 as stated: a file handed to create_message is treated as an image
\* exactly when its last dot-delimited segment, compared without case, is
\* in the whitelist, a name with no dot counting as its own extension.
C9_Original ==
    call.op = "create_message" =>
        \A n \in Handled : DecodedAsImage(n) <=> ExtInWhitelist(n)

\* C9 amended: ... exactly when its name holds a dot and its last
\* dot-delimited segment, compared without case, is in the whitelist; a
\* name with no dot is never treated as an image.
C9_Amended ==
    call.op = "create_message" =>
        /\ \A n \in Handled :
              /\ DecodedAsImage(n) <=> (Contains(n, ".") /\ ExtInWhitelist(n))
              /\ DecodedAsImage(n) <=> ~ReadRaw(n)
        /\ ret.status = "ok" =>
              Handled = {files[i].name : i \in MatchIdx(call.suffix)}

\* "b.PNG" was decoded as an image and "png" was read as it is
C9_Witness ==
    /\ call.op = "create_message"
    /\ ret.status = "ok"
    /\ DecodedAsImage(<<"b", ".", "P", "N", "G">>)
    /\ ReadRaw(<<"p", "n", "g">>)

\* C10: the message returned carries one attachment per file found, in the
\* order of the listing; its declared subtype is the last dot-delimited
\* segment of the file's name, and the payload of a file that is no image
\* is the file's bytes.
C10_OneAttachmentPerFile ==
    (call.op = "create_message" /\ ret.status = "ok") =>
        /\ Len(ret.value.attachments) = Cardinality(MatchIdx(call.suffix))
        /\ \A k \in 1..Len(ret.value.attachments) :
              LET f == files[NthMatch(call.suffix, k)]
                  a == ret.value.attachments[k]
              IN  /\ HasExt(f.name, a.subtype)
                  /\ ~(Contains(f.name, ".") /\ ExtInWhitelist(f.name)) =>
                         a.data = f.content.data

\* two attachments: a text file, then an image that was resized
C10_Witness ==
    /\ call.op = "create_message"
    /\ ret.status = "ok"
    /\ Len(ret.value.attachments) = 2
    /\ ret.value.attachments[1].subtype = <<"t", "x", "t">>
    /\ ret.value.attachments[2].subtype = <<"p", "n", "g">>
    /\ ret.value.attachments[2].data # files[2].content.data
RECURSIVE Runs(_, _, _)
Runs(s, i, cur) ==
    IF i > Len(s) THEN (IF cur = <<>> THEN <<>> ELSE <<cur>>)
    ELSE IF s[i] \in {" ", "\t", "\n", "\r", ";"}
         THEN (IF cur = <<>> THEN <<>> ELSE <<cur>>) \o Runs(s, i + 1, <<>>)
         ELSE Runs(s, i + 1, Append(cur, s[i]))

RECURSIVE WithoutAngles(_)
WithoutAngles(s) ==
    IF s = <<>> THEN <<>>
    ELSE (IF Head(s) \in {"<", ">"} THEN <<>> ELSE <<Head(s)>>) \o WithoutAngles(Tail(s))

RECURSIVE AddressesIn(_)
AddressesIn(runs) ==
    IF runs = <<>> THEN <<>>
    ELSE (IF Contains(Head(runs), "@") THEN <<WithoutAngles(Head(runs))>> ELSE <<>>)
         \o AddressesIn(Tail(runs))

\* the addresses of the matching files from the k-th on, file by file
RECURSIVE ExpectedFrom(_, _)
ExpectedFrom(x, k) ==
    IF k > Cardinality(MatchIdx(x)) THEN <<>>
    ELSE AddressesIn(Runs(Lower(Decode(files[NthMatch(x, k)].content.data)), 1, <<>>))
         \o ExpectedFrom(x, k + 1)

CleanToken(t) ==
    /\ t # <<>>
    /\ Contains(t, "@")
    /\ \A i \in 1..Len(t) :
          /\ t[i] \notin {" ", "\t", "\n", "\r", ";", "<", ">"}
          /\ \A u \in 1..Len(UPPER) : t[i] # UPPER[u]

\* C3: process_email_list returns, in reading order and with duplicates,
\* exactly the lower-cased pieces between whitespace, ";" and line breaks
\* that hold an "@", their "<" and ">" removed; each holds "@" and no
\* whitespace, ";", "<", ">" or upper-case letter; the two example lines
\* give alice@example.com and bob@test.org; text without "@" gives the
\* empty sequence.
C3_ExtractsAddresses ==
    (call.op = "process_email_list" /\ exists) =>
        /\ ret.status = "ok"
        /\ ret.value = ExpectedFrom(call.suffix, 1)
        /\ \A k \in 1..Len(ret.value) : CleanToken(ret.value[k])
        /\ files = <<TextFile(<<"a", ".", "t", "x", "t">>, EXAMPLE_TEXT)>> =>
              ret.value = << <<"a", "l", "i", "c", "e", "@", "e", "x", "a", "m", "p", "l", "e", ".", "c", "o", "m">>,
                             <<"b", "o", "b", "@", "t", "e", "s", "t", ".", "o", "r", "g">> >>
        /\ (\A i \in MatchIdx(call.suffix) : ~Contains(Decode(files[i].content.data), "@"))
              => ret.value = <<>>

\* two files read in listing order, an address from each, one of them
\* lower-cased and stripped of its brackets
C3_Witness ==
    /\ call.op = "process_email_list"
    /\ ret.status = "ok"
    /\ Len(files) = 2
    /\ files[2].content.data = Encode(<<"<", "A", "@">>)
    /\ ret.value = << <<"a", "l", "i", "c", "e", "@", "e", "x", "a", "m", "p", "l", "e", ".", "c", "o", "m">>, <<"b", "o", "b", "@", "t", "e", "s", "t", ".", "o", "r", "g">>, <<"a", "@">> >>

\* image2bytes was called on a decodable file with an image name
C5_Case ==
    /\ call.op = "image2bytes"
    /\ is_file_image(files[1].name)
    /\ files[1].content.img

Abs(x) == IF x < 0 THEN -x ELSE x

\* the shape <<oh, ow>> is what the claim allows for an h x w image and m
C5_ShapeAllowed(h, w, m, oh, ow) ==
    LET p == Max2(h, w)
    IN  IF p <= m THEN oh = h /\ ow = w
        ELSE /\ Abs(Max2(oh, ow) - m) <= 1
             /\ Abs(oh * p - h * m) <= p
             /\ Abs(ow * p - w * m) <= p
             /\ oh <= m + 1 /\ ow <= m + 1
             /\ oh >= 1 /\ ow >= 1

\* C5: for every image of height h and width w and every max_size m,
\* image2bytes yields an image of the same shape when max(h, w) <= m, and
\* otherwise of both dimensions scaled by m / max(h, w), the longer edge m
\* within a pixel, no dimension above m + 1 or below 1.
C5_Original ==
    C5_Case =>
        /\ ret.status = "ok"
        /\ C5_ShapeAllowed(files[1].content.data[1], files[1].content.data[2],
                           call.max_size, ret.value[1], ret.value[2])

\* what remains of C5 on the code: whenever an image is yielded its shape
\* is the one claimed, and none is yielded only when a scaled dimension
\* rounds to 0
C5_WhenYielded ==
    C5_Case =>
        LET h == files[1].content.data[1]
            w == files[1].content.data[2]
            m == call.max_size
        IN  IF ret.status = "ok"
            THEN C5_ShapeAllowed(h, w, m, ret.value[1], ret.value[2])
            ELSE /\ ret.exc = "cv2.error"
                 /\ Max2(h, w) > m
                 /\ 2 * h * m <= Max2(h, w) \/ 2 * w * m <= Max2(h, w)
====
